---------------------------- MODULE Spec2Model ----------------------------
(***************************************************************************)
(* Model of sfs.mono.source: the monochromatic sound-field evaluators      *)
(* point, point_velocity, point_modal, point_modal_velocity, line,         *)
(* line_velocity, line_dipole, plane, plane_velocity and the helper        *)
(* _duplicate_zdirection.                                                  *)
(*                                                                         *)
(* Arrays are modelled as records [kind, shape, at, base]: `shape` is the  *)
(* numpy shape, `at` maps every index tuple to the element stored there    *)
(* and `base` names the buffer that owns the memory ("fresh" for an array  *)
(* allocated by the evaluator, the argument's name for a caller's array).  *)
(* Field values are kept symbolic: an element records the closed-form      *)
(* expression and the quantities it was computed from (wavenumber, squared *)
(* distance, offsets, medium constants), plus whether it is finite.        *)
(* Coordinates are integers; r is carried as its square r2.                *)
(***************************************************************************)
EXTENDS Integers, Sequences, FiniteSets, Bags, TLC

VARIABLES pc, fn, args, mem, out, defs

vars == <<pc, fn, args, mem, out, defs>>

(***************************************************************************)
(* Bounds of the model.                                                    *)
(***************************************************************************)
NX == 2      \* grid extent along x
NY == 2      \* grid extent along y
NZ == 2      \* grid extent along z
MaxN == 2    \* largest scalar mode order N tried

(***************************************************************************)
(* Medium constants (sfs.defs) and pi as the rational the model uses for   *)
(* np.pi.                                                                  *)
(***************************************************************************)
DefaultC == 343
Rho0 == "rho0"
PiNum == 22
PiDen == 7

Defs0 == [c |-> DefaultC, rho0 |-> Rho0]

(***************************************************************************)
(* Small arithmetic helpers.                                               *)
(***************************************************************************)
Max(a, b) == IF a >= b THEN a ELSE b

RECURSIVE Gcd(_, _)
Gcd(a, b) == IF b = 0 THEN a ELSE Gcd(b, a % b)

\* a/b as a reduced fraction <<num, den>>, b > 0, a >= 0
Frac(a, b) == LET g == Gcd(a, b) IN <<a \div g, b \div g>>

\* ceil(a/b) for b > 0, a >= 0
CeilDiv(a, b) == (a + b - 1) \div b

(***************************************************************************)
(* numpy shapes, indices and broadcasting.                                 *)
(***************************************************************************)
Idx(s) ==
    IF Len(s) = 0 THEN {<<>>}
    ELSE IF Len(s) = 1 THEN {<<i>> : i \in 1..s[1]}
    ELSE IF Len(s) = 2 THEN {<<i, j>> : i \in 1..s[1], j \in 1..s[2]}
    ELSE {<<i, j, l>> : i \in 1..s[1], j \in 1..s[2], l \in 1..s[3]}

\* shape s with leading axes of length 1 prepended up to n dimensions
Pad(s, n) == [i \in 1..n |-> IF i <= n - Len(s) THEN 1 ELSE s[i - (n - Len(s))]]

Compatible(s, t) ==
    LET n == Max(Len(s), Len(t))
        ps == Pad(s, n)
        pt == Pad(t, n)
    IN  \A i \in 1..n : ps[i] = pt[i] \/ ps[i] = 1 \/ pt[i] = 1

BShape(s, t) ==
    LET n == Max(Len(s), Len(t))
        ps == Pad(s, n)
        pt == Pad(t, n)
    IN  [i \in 1..n |-> IF ps[i] = 1 THEN pt[i] ELSE ps[i]]

\* element of array a seen at index idx of a shape a.shape broadcasts to
Get(a, idx) ==
    LET d == Len(idx) - Len(a.shape)
    IN  a.at[[i \in 1..Len(a.shape) |-> IF a.shape[i] = 1 THEN 1 ELSE idx[i + d]]]

\* a freshly allocated ndarray
NewArray(shape, at) == [kind |-> "ndarray", shape |-> shape, at |-> at, base |-> "fresh"]

\* the Python int 0
PyZero == [kind |-> "int", shape |-> <<>>, at |-> [i \in {<<>>} |-> <<>>], base |-> "fresh"]

(***************************************************************************)
(* Outcomes of a call: it returns a sequence of objects (one for a         *)
(* pressure, one per component for a velocity) or raises.  `writes` are    *)
(* the in-place stores the call made: pairs <<buffer, new contents>>.      *)
(***************************************************************************)
Return(val, writes) == [status |-> "returned", exc |-> "", val |-> val, writes |-> writes]
Raise(exc) == [status |-> "raised", exc |-> exc, val |-> <<>>, writes |-> {}]

(***************************************************************************)
(* util.wavenumber: k = omega / c, c defaulting to defs.c.  The optional c *)
(* is the empty set (None) or a singleton.                                 *)
(***************************************************************************)
SoundSpeed(c, d) == IF c = {} THEN d.c ELSE CHOOSE v \in c : TRUE

wavenumber(omega, c, d) == Frac(omega, SoundSpeed(c, d))

(***************************************************************************)
(* util.XyzComponents(grid): the components themselves, not copied.        *)
(* A grid is a sequence of three components (or of two: x and y only).     *)
(***************************************************************************)
XyzComponents(grid) == grid

\* np.broadcast(*g) succeeds
GridCompatible(g) ==
    /\ Compatible(g[1].shape, g[2].shape)
    /\ Len(g) > 2 => Compatible(BShape(g[1].shape, g[2].shape), g[3].shape)

\* np.broadcast(*g).shape
GridShape(g) ==
    IF Len(g) > 2 THEN BShape(BShape(g[1].shape, g[2].shape), g[3].shape)
    ELSE BShape(g[1].shape, g[2].shape)

\* grid - x0, one array per component (each with its component's shape)
Offset(g, x0, n) ==
    [i \in 1..n |-> NewArray(g[i].shape, [ix \in Idx(g[i].shape) |-> g[i].at[ix] - x0.at[<<i>>]])]

\* np.linalg.norm(offset) squared, over the broadcast shape of the n components
Norm2(off, n) ==
    LET s == IF n = 2 THEN BShape(off[1].shape, off[2].shape)
             ELSE BShape(BShape(off[1].shape, off[2].shape), off[3].shape)
        sq(v) == v * v
    IN  NewArray(s, [ix \in Idx(s) |->
            sq(Get(off[1], ix)) + sq(Get(off[2], ix))
              + (IF n = 2 THEN 0 ELSE sq(Get(off[3], ix)))])

(***************************************************************************)
(* point                                                                   *)
(***************************************************************************)
\* the field computed into the buffer of the grid's x component
point_shared(omega, x0, n0, grid, c, d) ==
    LET k == wavenumber(omega, c, d)
        g == XyzComponents(grid)
    IN  IF Len(g) # 3 \/ ~GridCompatible(g) THEN Raise("ValueError")
        ELSE LET r == Norm2(Offset(g, x0, 3), 3)
                 p == [NewArray(r.shape, [ix \in Idx(r.shape) |->
                            [f |-> "point", k |-> k, r2 |-> r.at[ix],
                             fin |-> r.at[ix] # 0]]) EXCEPT !.base = g[1].base]
             IN  Return(<<p>>, {<<p.base, p>>})

point(omega, x0, n0, grid, c, d) ==
    LET k == wavenumber(omega, c, d)
        g == XyzComponents(grid)
    IN  IF Len(g) # 3 \/ ~GridCompatible(g) THEN Raise("ValueError")
        ELSE LET r == Norm2(Offset(g, x0, 3), 3)
             IN  Return(<<NewArray(r.shape, [ix \in Idx(r.shape) |->
                            [f |-> "point", k |-> k, r2 |-> r.at[ix],
                             fin |-> r.at[ix] # 0]])>>, {})

(***************************************************************************)
(* point_velocity: scales the array point() returned in place, then        *)
(* projects it on the three offsets.                                       *)
(***************************************************************************)
point_velocity(omega, x0, n0, grid, c, d) ==
    LET k == wavenumber(omega, c, d)
        g == XyzComponents(grid)
        pr == point(omega, x0, n0, grid, c, d)
    IN  IF pr.status = "raised" THEN pr
        ELSE LET offset == Offset(g, x0, 3)
                 r == Norm2(offset, 3)
                 v0 == pr.val[1]
                 \* v *= (1+1j*k*r) / (defs.rho0 * defs.c * 1j*k*r)
                 v == [v0 EXCEPT !.at = [ix \in Idx(v0.shape) |->
                          [f |-> "point_nearfield", k |-> k, r2 |-> r.at[ix],
                           rho |-> d.rho0, c |-> d.c,
                           fin |-> v0.at[ix].fin /\ k[1] # 0]]]
                 comp(i) ==
                     LET s == BShape(v.shape, offset[i].shape)
                     IN  NewArray(s, [ix \in Idx(s) |->
                            [f |-> "point_velocity", v |-> Get(v, ix),
                             o |-> Get(offset[i], ix), r2 |-> Get(r, ix),
                             fin |-> Get(v, ix).fin]])
             IN  Return(<<comp(1), comp(2), comp(3)>>, pr.writes \cup {<<v.base, v>>})

(***************************************************************************)
(* plane and plane_velocity                                                *)
(***************************************************************************)
plane(omega, x0, n0, grid, c, d) ==
    LET k == wavenumber(omega, c, d)
        g == XyzComponents(grid)
    IN  IF n0 = {} THEN Raise("ValueError")
        ELSE IF Len(g) # 3 \/ ~GridCompatible(g) THEN Raise("ValueError")
        ELSE LET n == CHOOSE v \in n0 : TRUE
                 off == Offset(g, x0, 3)
                 s == GridShape(g)
             IN  Return(<<NewArray(s, [ix \in Idx(s) |->
                     [f |-> "plane", k |-> k,
                      phase |-> Get(off[1], ix) * n.at[<<1>>] + Get(off[2], ix) * n.at[<<2>>]
                                  + Get(off[3], ix) * n.at[<<3>>],
                      fin |-> TRUE]])>>, {})

plane_velocity(omega, x0, n0, grid, c, d) ==
    LET pr == plane(omega, x0, n0, grid, c, d)
    IN  IF pr.status = "raised" THEN pr
        ELSE LET p == pr.val[1]
                 n == CHOOSE v \in n0 : TRUE
                 comp(i) == NewArray(p.shape, [ix \in Idx(p.shape) |->
                               [f |-> "plane_velocity", p |-> p.at[ix],
                                rho |-> d.rho0, c |-> d.c, n |-> n.at[<<i>>],
                                fin |-> TRUE]])
             IN  Return(<<comp(1), comp(2), comp(3)>>, pr.writes)

(***************************************************************************)
(* _duplicate_zdirection: np.tile(p, [1, 1, gridshape[2]]) when the grid's *)
(* broadcast shape has more than two dimensions, else p itself.            *)
(***************************************************************************)
\* np.tile(p, reps) for a reps of length 3 and p.ndim <= 3
Tile(p, reps) ==
    LET ps == Pad(p.shape, 3)
        s == [i \in 1..3 |-> ps[i] * reps[i]]
        d == 3 - Len(p.shape)
    IN  NewArray(s, [ix \in Idx(s) |->
            p.at[[i \in 1..Len(p.shape) |-> ((ix[i + d] - 1) % ps[i + d]) + 1]]])

\* a duplication that fills only the first z-slice
_duplicate_zdirection_first(p, grid) ==
    LET gridshape == GridShape(grid)
        t == Tile(p, <<1, 1, gridshape[3]>>)
    IN  IF Len(gridshape) > 2
        THEN [t EXCEPT !.at = [ix \in Idx(t.shape) |->
                 IF ix[3] = 1 THEN t.at[ix] ELSE [f |-> "zero", fin |-> TRUE]]]
        ELSE p

_duplicate_zdirection(p, grid) ==
    LET gridshape == GridShape(grid)
    IN  IF Len(gridshape) > 2 THEN Tile(p, <<1, 1, gridshape[3]>>) ELSE p

(***************************************************************************)
(* line, line_velocity, line_dipole: computed from the first two           *)
(* components of x0 and of the grid, then duplicated along z.              *)
(***************************************************************************)
\* the distance taken over all the components, as for a point source
line_norm3(omega, x0, n0, grid, c, d) ==
    LET k == wavenumber(omega, c, d)
        g == XyzComponents(grid)
        n == IF Len(g) > 2 THEN 3 ELSE 2
    IN  IF ~GridCompatible(g) THEN Raise("ValueError")
        ELSE LET r == Norm2(Offset(g, x0, n), n)
                 p == NewArray(r.shape, [ix \in Idx(r.shape) |->
                         [f |-> "line", k |-> k, r2 |-> r.at[ix],
                          fin |-> r.at[ix] # 0 /\ k[1] # 0]])
             IN  Return(<<_duplicate_zdirection(p, g)>>, {})

line(omega, x0, n0, grid, c, d) ==
    LET k == wavenumber(omega, c, d)
        g == XyzComponents(grid)
    IN  IF ~Compatible(g[1].shape, g[2].shape) THEN Raise("ValueError")
        ELSE LET r == Norm2(Offset(g, x0, 2), 2)
                 p == NewArray(r.shape, [ix \in Idx(r.shape) |->
                         [f |-> "line", k |-> k, r2 |-> r.at[ix],
                          fin |-> r.at[ix] # 0 /\ k[1] # 0]])
             IN  IF ~GridCompatible(g) THEN Raise("ValueError")
                 ELSE Return(<<_duplicate_zdirection(p, g)>>, {})

\* the z component appended only for a grid with an extent along z
line_velocity_zextent(omega, x0, n0, grid, c, d) ==
    LET k == wavenumber(omega, c, d)
        g == XyzComponents(grid)
    IN  IF ~Compatible(g[1].shape, g[2].shape) THEN Raise("ValueError")
        ELSE LET offset == Offset(g, x0, 2)
                 r == Norm2(offset, 2)
                 comp(i) ==
                     LET s == BShape(r.shape, offset[i].shape)
                     IN  NewArray(s, [ix \in Idx(s) |->
                            [f |-> "line_velocity", k |-> k, r2 |-> Get(r, ix),
                             rho |-> d.rho0, c |-> d.c, o |-> Get(offset[i], ix),
                             fin |-> Get(r, ix) # 0 /\ k[1] # 0]])
                 zeros == NewArray(comp(1).shape, [ix \in Idx(comp(1).shape) |->
                             [f |-> "zero", fin |-> TRUE]])
                 v == IF GridCompatible(g) /\ Len(GridShape(g)) > 2 THEN <<comp(1), comp(2), zeros>>
                      ELSE <<comp(1), comp(2)>>
             IN  IF ~GridCompatible(g) THEN Raise("ValueError")
                 ELSE Return([i \in 1..Len(v) |-> _duplicate_zdirection(v[i], g)], {})

line_velocity(omega, x0, n0, grid, c, d) ==
    LET k == wavenumber(omega, c, d)
        g == XyzComponents(grid)
    IN  IF ~Compatible(g[1].shape, g[2].shape) THEN Raise("ValueError")
        ELSE LET offset == Offset(g, x0, 2)
                 r == Norm2(offset, 2)
                 comp(i) ==
                     LET s == BShape(r.shape, offset[i].shape)
                     IN  NewArray(s, [ix \in Idx(s) |->
                            [f |-> "line_velocity", k |-> k, r2 |-> Get(r, ix),
                             rho |-> d.rho0, c |-> d.c, o |-> Get(offset[i], ix),
                             fin |-> Get(r, ix) # 0 /\ k[1] # 0]])
                 zeros == NewArray(comp(1).shape, [ix \in Idx(comp(1).shape) |->
                             [f |-> "zero", fin |-> TRUE]])
                 v == IF Len(g) > 2 THEN <<comp(1), comp(2), zeros>>
                      ELSE <<comp(1), comp(2)>>
             IN  IF ~GridCompatible(g) THEN Raise("ValueError")
                 ELSE Return([i \in 1..Len(v) |-> _duplicate_zdirection(v[i], g)], {})

line_dipole(omega, x0, n0, grid, c, d) ==
    LET k == wavenumber(omega, c, d)
        g == XyzComponents(grid)
    IN  IF n0 = {} THEN Raise("TypeError")
        ELSE IF ~Compatible(g[1].shape, g[2].shape) THEN Raise("ValueError")
        ELSE LET n == CHOOSE v \in n0 : TRUE
                 dx == Offset(g, x0, 2)
                 r == Norm2(dx, 2)
                 p == NewArray(r.shape, [ix \in Idx(r.shape) |->
                         [f |-> "line_dipole", k |-> k, r2 |-> r.at[ix],
                          inner |-> Get(dx[1], ix) * n.at[<<1>>]
                                      + Get(dx[2], ix) * n.at[<<2>>],
                          fin |-> r.at[ix] # 0 /\ k[1] # 0]])
             IN  IF ~GridCompatible(g) THEN Raise("ValueError")
                 ELSE Return(<<_duplicate_zdirection(p, g)>>, {})

(***************************************************************************)
(* Modal room model.  N is a record [form, n, s]: form "none" (N omitted), *)
(* "int" (a Python int n), "float" (a non-integer scalar) or "seq" (a      *)
(* sequence s).  L is a record [s, np]: the three room dimensions and      *)
(* whether they are numpy scalars (L an ndarray) or Python numbers.        *)
(***************************************************************************)
\* range(n)
Range(n) == [i \in 1..Max(n, 0) |-> i - 1]

\* the order rounded down and incremented instead of rounded up
AutoOrderFloor(Li, k) == ((Li * k[1] * PiDen) \div (k[2] * PiNum)) + 1

\* int(np.ceil(Li/np.pi * k)), k = <<num, den>>
AutoOrder(Li, k) == CeilDiv(Li * k[1] * PiDen, k[2] * PiNum)

\* itertools.product of three sequences, last one varying fastest
Product(a, b, c) ==
    [i \in 1..(Len(a) * Len(b) * Len(c)) |->
        << a[((i - 1) \div (Len(b) * Len(c))) + 1],
           b[(((i - 1) \div Len(c)) % Len(b)) + 1],
           c[((i - 1) % Len(c)) + 1] >>]

\* m * np.pi / Li, kept as the reduced fraction m/Li (in units of pi)
AxisK(m, Li) == Frac(m, Li)

\* ksquared - km = 0: only without absorption, when k^2 equals the mode sum
Resonant(k, L, t, deltan) ==
    /\ deltan = 0
    /\ k[1] * k[1] * PiDen * PiDen * (L.s[1] * L.s[2] * L.s[3]) * (L.s[1] * L.s[2] * L.s[3])
         = k[2] * k[2] * PiNum * PiNum
             * ( t[1] * t[1] * (L.s[2] * L.s[3]) * (L.s[2] * L.s[3])
               + t[2] * t[2] * (L.s[1] * L.s[3]) * (L.s[1] * L.s[3])
               + t[3] * t[3] * (L.s[1] * L.s[2]) * (L.s[1] * L.s[2]) )

\* 8 / (ksquared - km): the operands are Python scalars (a Python complex
\* division, which raises on a zero divisor) unless L holds numpy scalars
DivisionRaises(k, L, t, deltan) == ~L.np /\ Resonant(k, L, t, deltan)

\* the coefficient of a mode: num / (k^2 - sum of (k_m + 1j*deltan)^2)
Coefficient(num, k, L, t, deltan) ==
    [num |-> num, k |-> k,
     km |-> <<AxisK(t[1], L.s[1]), AxisK(t[2], L.s[2]), AxisK(t[3], L.s[3])>>,
     deltan |-> deltan, fin |-> ~Resonant(k, L, t, deltan)]

\* f(k_m * coord) * cos(k_m * x0[axis]) at one grid coordinate
Basis(f, m, Li, coord, src) == [f |-> f, km |-> AxisK(m, Li), at |-> coord, src |-> src]

\* p + a, elementwise with broadcasting; p is the Python int 0 or an array
\* whose elements are the sequences of terms summed so far
Accumulate(p, a) ==
    LET s == BShape(p.shape, a.shape)
    IN  NewArray(s, [ix \in Idx(s) |->
            (IF p.kind = "int" THEN <<>> ELSE Get(p, ix)) \o <<Get(a, ix)>>])

(***************************************************************************)
(* point_modal                                                             *)
(***************************************************************************)
\* a scalar N taken as an inclusive upper bound
point_modal_modes_inclusive(k, L, N) ==
    IF N.form = "none"
    THEN [exc |-> "", mm |-> Range(AutoOrder(L.s[1], k)),
                      nn |-> Range(AutoOrder(L.s[2], k)),
                      ll |-> Range(AutoOrder(L.s[3], k))]
    ELSE IF N.form = "int"
    THEN [exc |-> "", mm |-> Range(N.n + 1), nn |-> Range(N.n + 1), ll |-> Range(N.n + 1)]
    ELSE IF N.form = "float"
    THEN [exc |-> "TypeError", mm |-> <<>>, nn |-> <<>>, ll |-> <<>>]
    ELSE IF Len(N.s) < 3
    THEN [exc |-> "IndexError", mm |-> <<>>, nn |-> <<>>, ll |-> <<>>]
    ELSE [exc |-> "", mm |-> <<N.s[1]>>, nn |-> <<N.s[2]>>, ll |-> <<N.s[3]>>]

\* lines 120-137: the mode indices summed on each axis, or the failure
point_modal_modes(k, L, N) ==
    IF N.form = "none"
    THEN [exc |-> "", mm |-> Range(AutoOrder(L.s[1], k)),
                      nn |-> Range(AutoOrder(L.s[2], k)),
                      ll |-> Range(AutoOrder(L.s[3], k))]
    ELSE IF N.form = "int"
    THEN [exc |-> "", mm |-> Range(N.n), nn |-> Range(N.n), ll |-> Range(N.n)]
    ELSE IF N.form = "float"
    THEN [exc |-> "TypeError", mm |-> <<>>, nn |-> <<>>, ll |-> <<>>]
    ELSE IF Len(N.s) < 3
    THEN [exc |-> "IndexError", mm |-> <<>>, nn |-> <<>>, ll |-> <<>>]
    ELSE [exc |-> "", mm |-> <<N.s[1]>>, nn |-> <<N.s[2]>>, ll |-> <<N.s[3]>>]

\* one term of the pressure sum: 8 / (ksquared - km) * p0 * p1 * p2
PressureTerm(k, x0, g, L, t, deltan) ==
    LET s == GridShape(g)
    IN  NewArray(s, [ix \in Idx(s) |->
            [m |-> t,
             coef |-> Coefficient("8", k, L, t, deltan),
             p |-> << Basis("cos", t[1], L.s[1], Get(g[1], ix), x0.at[<<1>>]),
                      Basis("cos", t[2], L.s[2], Get(g[2], ix), x0.at[<<2>>]),
                      Basis("cos", t[3], L.s[3], Get(g[3], ix), x0.at[<<3>>]) >>]])

\* lines 146-150: the loop over the product of the three mode lists
RECURSIVE PressureSum(_, _, _, _, _, _, _)
PressureSum(todo, p, k, x0, g, L, deltan) ==
    IF todo = <<>> THEN Return(<<p>>, {})
    ELSE IF DivisionRaises(k, L, Head(todo), deltan) THEN Raise("ZeroDivisionError")
    ELSE IF ~GridCompatible(g) THEN Raise("ValueError")
    ELSE PressureSum(Tail(todo), Accumulate(p, PressureTerm(k, x0, g, L, Head(todo), deltan)),
                     k, x0, g, L, deltan)

point_modal(omega, x0, n0, grid, L, N, deltan, c, d) ==
    LET k == wavenumber(omega, c, d)
        g == XyzComponents(grid)
        sel == point_modal_modes(k, L, N)
    IN  IF Len(g) # 3 THEN Raise("ValueError")
        ELSE IF sel.exc # "" THEN Raise(sel.exc)
        ELSE PressureSum(Product(sel.mm, sel.nn, sel.ll), PyZero, k, x0, g, L, deltan)

(***************************************************************************)
(* point_modal_velocity                                                    *)
(***************************************************************************)
\* lines 192-209
point_modal_velocity_modes(k, L, N) ==
    IF N.form = "none"
    THEN [exc |-> "", mm |-> Range(AutoOrder(L.s[1], k)),
                      nn |-> Range(AutoOrder(L.s[2], k)),
                      ll |-> Range(AutoOrder(L.s[3], k))]
    ELSE IF N.form = "int"
    THEN [exc |-> "", mm |-> Range(N.n), nn |-> Range(N.n), ll |-> Range(N.n)]
    ELSE IF N.form = "float"
    THEN [exc |-> "TypeError", mm |-> <<>>, nn |-> <<>>, ll |-> <<>>]
    ELSE IF Len(N.s) < 3
    THEN [exc |-> "IndexError", mm |-> <<>>, nn |-> <<>>, ll |-> <<>>]
    ELSE [exc |-> "", mm |-> <<N.s[1]>>, nn |-> <<N.s[2]>>, ll |-> <<N.s[3]>>]

\* the cosine basis of the pressure sum kept for the velocity
VelocityTermCosine(axis, k, x0, g, L, t, deltan) ==
    LET s == g[axis].shape
    IN  NewArray(s, [ix \in Idx(s) |->
            [m |-> t,
             coef |-> Coefficient("-8j", k, L, t, deltan),
             p |-> << Basis("cos", t[axis], L.s[axis], g[axis].at[ix], x0.at[<<axis>>]) >>]])

\* the denominator built from the own axis's mode wavenumber only
VelocityTermOwnAxis(axis, k, x0, g, L, t, deltan) ==
    LET s == g[axis].shape
        own == [b \in 1..3 |-> IF b = axis THEN t[b] ELSE 0]
    IN  NewArray(s, [ix \in Idx(s) |->
            [m |-> t,
             coef |-> Coefficient("-8j", k, L, own, deltan),
             p |-> << Basis("sin", t[axis], L.s[axis], g[axis].at[ix], x0.at[<<axis>>]) >>]])

\* one term of the velocity sum on one axis: 8*1j / (ksquared - km) * p_axis
VelocityTerm(axis, k, x0, g, L, t, deltan) ==
    LET s == g[axis].shape
    IN  NewArray(s, [ix \in Idx(s) |->
            [m |-> t,
             coef |-> Coefficient("-8j", k, L, t, deltan),
             p |-> << Basis("sin", t[axis], L.s[axis], g[axis].at[ix], x0.at[<<axis>>]) >>]])

\* the complex 0+0j the three sums start from (a 0-d array once returned)
ComplexZero == NewArray(<<>>, [i \in {<<>>} |-> <<>>])

\* vx = vx - term: elementwise, vx starting as the scalar 0+0j
AccumulateV(v, a) ==
    LET s == BShape(v.shape, a.shape)
    IN  NewArray(s, [ix \in Idx(s) |-> Get(v, ix) \o <<Get(a, ix)>>])

\* lines 217-226
RECURSIVE VelocitySum(_, _, _, _, _, _, _)
VelocitySum(todo, v, k, x0, g, L, deltan) ==
    IF todo = <<>> THEN Return(v, {})
    ELSE IF DivisionRaises(k, L, Head(todo), deltan) THEN Raise("ZeroDivisionError")
    ELSE VelocitySum(Tail(todo),
             [a \in 1..3 |-> AccumulateV(v[a], VelocityTerm(a, k, x0, g, L, Head(todo), deltan))],
             k, x0, g, L, deltan)

point_modal_velocity(omega, x0, n0, grid, L, N, deltan, c, d) ==
    LET k == wavenumber(omega, c, d)
        g == XyzComponents(grid)
        sel == point_modal_velocity_modes(k, L, N)
    IN  IF Len(g) # 3 THEN Raise("ValueError")
        ELSE IF sel.exc # "" THEN Raise(sel.exc)
        ELSE VelocitySum(Product(sel.mm, sel.nn, sel.ll),
                         <<ComplexZero, ComplexZero, ComplexZero>>, k, x0, g, L, deltan)

(***************************************************************************)
(* The caller's arguments.  Grids are built as sfs.util.xyz_grid and       *)
(* np.meshgrid build them: x varies along axis 1, y along axis 0, z along  *)
(* axis 2; a component is sparse (length 1 on the other axes), dense       *)
(* (already of the full shape) or a scalar.                                *)
(***************************************************************************)
\* an ndarray of the caller: coordinate off + (index along `axis`) - 1
Component(shape, axis, base, off) ==
    [kind |-> "ndarray", shape |-> shape,
     at |-> [ix \in Idx(shape) |-> IF axis = 0 THEN off ELSE off + ix[axis] - 1],
     base |-> base]

GridKinds == {"xyz_sparse", "xyz_dense", "xy_sparse", "xy_dense", "xy_pair",
              "x_only", "scalar", "mismatch"}

Grid(kind, zo) ==
    CASE kind = "xyz_sparse" ->
           << Component(<<1, NX, 1>>, 2, "gx", 0), Component(<<NY, 1, 1>>, 1, "gy", 0),
              Component(<<1, 1, NZ>>, 3, "gz", zo) >>
      [] kind = "xyz_dense" ->
           << Component(<<NY, NX, NZ>>, 2, "gx", 0), Component(<<NY, NX, NZ>>, 1, "gy", 0),
              Component(<<NY, NX, NZ>>, 3, "gz", zo) >>
      [] kind = "xy_sparse" ->
           << Component(<<1, NX>>, 2, "gx", 0), Component(<<NY, 1>>, 1, "gy", 0),
              Component(<<>>, 0, "gz", zo) >>
      [] kind = "xy_dense" ->
           << Component(<<NY, NX>>, 2, "gx", 0), Component(<<NY, NX>>, 1, "gy", 0),
              Component(<<>>, 0, "gz", zo) >>
      [] kind = "xy_pair" ->
           << Component(<<1, NX>>, 2, "gx", 0), Component(<<NY, 1>>, 1, "gy", 0) >>
      [] kind = "x_only" ->
           << Component(<<NX>>, 1, "gx", 0), Component(<<>>, 0, "gy", 0),
              Component(<<>>, 0, "gz", zo) >>
      [] kind = "scalar" ->
           << Component(<<>>, 0, "gx", 0), Component(<<>>, 0, "gy", 0),
              Component(<<>>, 0, "gz", zo) >>
      [] kind = "mismatch" ->
           << Component(<<NX>>, 1, "gx", 0), Component(<<NX + 1>>, 1, "gy", 0),
              Component(<<>>, 0, "gz", zo) >>

ZOffsets == {0, 1}

Grids == {Grid(kind, zo) : kind \in GridKinds, zo \in ZOffsets}

\* a caller's vector of three numbers
Vec3(a, b, c, base) ==
    [kind |-> "ndarray", shape |-> <<3>>,
     at |-> [ix \in Idx(<<3>>) |-> IF ix[1] = 1 THEN a ELSE IF ix[1] = 2 THEN b ELSE c],
     base |-> base]

X0s == {Vec3(0, 0, 0, "x0"), Vec3(1, 0, 1, "x0")}

\* n0: None (the empty set) or a vector
N0s == {{}, {Vec3(1, 0, 0, "n0")}, {Vec3(0, 1, 1, "n0")}}

\* (omega, c): c is None (the empty set) or given
OmegaC == {<<0, {}>>, <<343, {}>>, <<686, {}>>, <<343, {686}>>, <<22, {28}>>}

Ls == {[s |-> <<4, 3, 2>>, np |-> FALSE], [s |-> <<4, 3, 2>>, np |-> TRUE]}

NoN == [form |-> "none", n |-> 0, s |-> <<>>]

Ns == {NoN}
      \cup {[form |-> "int", n |-> n, s |-> <<>>] : n \in 0..MaxN}
      \cup {[form |-> "float", n |-> 0, s |-> <<>>]}
      \cup {[form |-> "seq", n |-> 0, s |-> q] :
              q \in {<<0, 0>>, <<0, 0, 0>>, <<1, 0, 1>>, <<1, 0, 1, 0>>}}

Deltans == {0, 1}

NoL == [s |-> <<>>, np |-> FALSE]

Args(omega, c, x0, n0, grid, L, N, deltan) ==
    [omega |-> omega, c |-> c, x0 |-> x0, n0 |-> n0, grid |-> grid,
     L |-> L, N |-> N, deltan |-> deltan]

NoArgs == Args(0, {}, Vec3(0, 0, 0, "x0"), {}, <<>>, NoL, NoN, 0)

NoOut == [status |-> "none", exc |-> "", val |-> <<>>, writes |-> {}]

(***************************************************************************)
(* The caller's memory after a call: its objects, with the call's in-place *)
(* stores applied to the buffers they name.                                *)
(***************************************************************************)
Stored(obj, writes) ==
    IF \E w \in writes : w[1] = obj.base
    THEN [obj EXCEPT !.at = (CHOOSE w \in writes : w[1] = obj.base)[2].at,
                     !.shape = (CHOOSE w \in writes : w[1] = obj.base)[2].shape]
    ELSE obj

Memory(a, writes) ==
    [grid |-> [i \in 1..Len(a.grid) |-> Stored(a.grid[i], writes)],
     x0 |-> Stored(a.x0, writes),
     n0 |-> {Stored(n, writes) : n \in a.n0},
     L |-> a.L, N |-> a.N]

(***************************************************************************)
(* State machine: the caller is idle or holds the outcome of its last      *)
(* call.  One action per evaluator.                                        *)
(***************************************************************************)
Init ==
    /\ pc = "idle"
    /\ fn = ""
    /\ args = NoArgs
    /\ mem = Memory(NoArgs, {})
    /\ out = NoOut
    /\ defs = Defs0

Called(name, a, r) ==
    /\ pc' = "returned"
    /\ fn' = name
    /\ args' = a
    /\ out' = r
    /\ mem' = Memory(a, r.writes)
    /\ defs' = defs

CallPoint ==
    /\ pc = "idle"
    /\ \E oc \in OmegaC, x0 \in X0s, g \in Grids :
         Called("point", Args(oc[1], oc[2], x0, {}, g, NoL, NoN, 0),
                point(oc[1], x0, {}, g, oc[2], defs))

CallPointVelocity ==
    /\ pc = "idle"
    /\ \E oc \in OmegaC, x0 \in X0s, g \in Grids :
         Called("point_velocity", Args(oc[1], oc[2], x0, {}, g, NoL, NoN, 0),
                point_velocity(oc[1], x0, {}, g, oc[2], defs))

CallPointModal ==
    /\ pc = "idle"
    /\ \E oc \in OmegaC, x0 \in X0s, kind \in GridKinds, L \in Ls, N \in Ns, dl \in Deltans :
         Called("point_modal", Args(oc[1], oc[2], x0, {}, Grid(kind, 0), L, N, dl),
                point_modal(oc[1], x0, {}, Grid(kind, 0), L, N, dl, oc[2], defs))

CallPointModalVelocity ==
    /\ pc = "idle"
    /\ \E oc \in OmegaC, x0 \in X0s, kind \in GridKinds, L \in Ls, N \in Ns, dl \in Deltans :
         Called("point_modal_velocity", Args(oc[1], oc[2], x0, {}, Grid(kind, 0), L, N, dl),
                point_modal_velocity(oc[1], x0, {}, Grid(kind, 0), L, N, dl, oc[2], defs))

CallLine ==
    /\ pc = "idle"
    /\ \E oc \in OmegaC, x0 \in X0s, g \in Grids :
         Called("line", Args(oc[1], oc[2], x0, {}, g, NoL, NoN, 0),
                line(oc[1], x0, {}, g, oc[2], defs))

CallLineVelocity ==
    /\ pc = "idle"
    /\ \E oc \in OmegaC, x0 \in X0s, g \in Grids :
         Called("line_velocity", Args(oc[1], oc[2], x0, {}, g, NoL, NoN, 0),
                line_velocity(oc[1], x0, {}, g, oc[2], defs))

CallLineDipole ==
    /\ pc = "idle"
    /\ \E oc \in OmegaC, x0 \in X0s, n0 \in N0s, g \in Grids :
         Called("line_dipole", Args(oc[1], oc[2], x0, n0, g, NoL, NoN, 0),
                line_dipole(oc[1], x0, n0, g, oc[2], defs))

CallPlane ==
    /\ pc = "idle"
    /\ \E oc \in OmegaC, x0 \in X0s, n0 \in N0s, g \in Grids :
         Called("plane", Args(oc[1], oc[2], x0, n0, g, NoL, NoN, 0),
                plane(oc[1], x0, n0, g, oc[2], defs))

CallPlaneVelocity ==
    /\ pc = "idle"
    /\ \E oc \in OmegaC, x0 \in X0s, n0 \in N0s, g \in Grids :
         Called("plane_velocity", Args(oc[1], oc[2], x0, n0, g, NoL, NoN, 0),
                plane_velocity(oc[1], x0, n0, g, oc[2], defs))

\* the caller drops the outcome and is ready for its next call
Resume ==
    /\ pc = "returned"
    /\ pc' = "idle"
    /\ fn' = ""
    /\ args' = NoArgs
    /\ mem' = Memory(NoArgs, {})
    /\ out' = NoOut
    /\ defs' = defs

Next ==
    \/ CallPoint
    \/ CallPointVelocity
    \/ CallPointModal
    \/ CallPointModalVelocity
    \/ CallLine
    \/ CallLineVelocity
    \/ CallLineDipole
    \/ CallPlane
    \/ CallPlaneVelocity
    \/ Resume

Spec == Init /\ [][Next]_vars

(***************************************************************************)
(* Properties.                                                             *)
(***************************************************************************)
Returned == pc = "returned" /\ out.status = "returned"

Modal == {"point_modal", "point_modal_velocity"}

LineFamily == {"line", "line_velocity", "line_dipole"}

\* the call's grid has three broadcast-compatible components
GridOk == Len(args.grid) = 3 /\ GridCompatible(args.grid)

\* C1: for every evaluator and every grid whose three components are
\* broadcast-compatible, each returned field has the broadcast shape of the
\* grid's x, y and z components.
C1_ShapeIsBroadcast ==
    (Returned /\ GridOk) =>
        \A i \in 1..Len(out.val) : out.val[i].shape = GridShape(args.grid)

\* the same statement for the evaluators other than the line family and the
\* modal ones, for which it holds
C1_ShapeIsBroadcastClosedForm ==
    (Returned /\ GridOk /\ fn \in {"point", "point_velocity", "plane", "plane_velocity"}) =>
        \A i \in 1..Len(out.val) : out.val[i].shape = GridShape(args.grid)

\* C2: point_modal with a scalar N and deltan = 0 returns, at every grid
\* point, the sum over exactly the N*N*N triples (m, n, l), each index in
\* 0..N-1, of 8 / (k^2 - km) * cos cos * cos cos * cos cos: every triple
\* contributes exactly one term and no other term is added.
C2_Triples == {<<m, n, l>> : m \in 0..(args.N.n - 1), n \in 0..(args.N.n - 1),
                             l \in 0..(args.N.n - 1)}

C2_IsTermOf(term, t, ix) ==
    /\ term.coef.num = "8"
    /\ term.coef.k = Frac(args.omega, SoundSpeed(args.c, defs))
    /\ term.coef.deltan = 0
    /\ term.coef.km = [a \in 1..3 |-> Frac(t[a], args.L.s[a])]
    /\ Len(term.p) = 3
    /\ \A a \in 1..3 :
         term.p[a] = [f |-> "cos", km |-> Frac(t[a], args.L.s[a]),
                      at |-> Get(args.grid[a], ix), src |-> args.x0.at[<<a>>]]

C3_ZExtent == Len(GridShape(args.grid)) = 3

C3_R2(ix) ==
    LET dx == Get(args.grid[1], ix) - args.x0.at[<<1>>]
        dy == Get(args.grid[2], ix) - args.x0.at[<<2>>]
    IN  dx * dx + dy * dy

C3_LineZInvariant ==
    (Returned /\ fn \in LineFamily /\ GridOk /\ C3_ZExtent) =>
        \A c \in 1..Len(out.val) : \A ix \in Idx(GridShape(args.grid)) :
            /\ out.val[c].at[ix] = out.val[c].at[<<ix[1], ix[2], 1>>]
            /\ out.val[c].at[ix].f # "zero" => out.val[c].at[ix].r2 = C3_R2(ix)

C3_Witness ==
    /\ Returned /\ fn = "line" /\ GridOk /\ C3_ZExtent
    /\ GridShape(args.grid)[3] = NZ
    /\ out.val[1].at[<<1, 1, NZ>>] = out.val[1].at[<<1, 1, 1>>]
    /\ out.val[1].at[<<1, 2, 1>>] # out.val[1].at[<<1, 1, 1>>]

\* the mode triples the call sums, in order (empty when the selection fails)
SummedTriples ==
    LET sel == point_modal_modes(Frac(args.omega, SoundSpeed(args.c, defs)), args.L, args.N)
    IN  Product(sel.mm, sel.nn, sel.ll)

\* the call meets a singularity: an exact resonance of a summed mode without
\* absorption, or a grid point of point() at the source position
C4_Singular ==
    \/ /\ fn \in Modal
       /\ args.N.form \in {"none", "int"} \/ (args.N.form = "seq" /\ Len(args.N.s) = 3)
       /\ \E j \in 1..Len(SummedTriples) :
            Resonant(Frac(args.omega, SoundSpeed(args.c, defs)), args.L,
                     SummedTriples[j], args.deltan)
    \/ /\ fn = "point"
       /\ \E ix \in Idx(GridShape(args.grid)) :
            \A a \in 1..3 : Get(args.grid[a], ix) = args.x0.at[<<a>>]

C4_HasNonFinite ==
    \E c \in 1..Len(out.val) : \E ix \in Idx(out.val[c].shape) :
        IF fn = "point" THEN ~out.val[c].at[ix].fin
        ELSE \E j \in 1..Len(out.val[c].at[ix]) : ~out.val[c].at[ix][j].coef.fin

\* C4: a numerical singularity is never an error outcome: the call does not
\* raise, it returns a field whose affected values are non-finite.
C4_SingularityNeverRaises ==
    (pc = "returned" /\ GridOk /\ C4_Singular) =>
        (out.status = "returned" /\ C4_HasNonFinite)

\* C5: every call either raises or returns a complete field array (or a
\* triple of them), never a non-array placeholder.
C5_ArrayOrRaise ==
    pc = "returned" =>
        \/ out.status = "raised"
        \/ /\ out.status = "returned"
           /\ \A c \in 1..Len(out.val) : out.val[c].kind = "ndarray"

\* C6: with an explicit sound speed c, the impedance factor rho*c of the
\* velocity evaluators uses the supplied c, the one k = omega/c is computed
\* from.
C6_ImpedanceC(e) == IF fn = "point_velocity" THEN e.v.c ELSE e.c

C6_ImpedanceUsesSuppliedC ==
    (Returned /\ fn \in {"point_velocity", "plane_velocity", "line_velocity"}) =>
        \A c \in 1..Len(out.val) : \A ix \in Idx(out.val[c].shape) :
            out.val[c].at[ix].f # "zero" =>
                C6_ImpedanceC(out.val[c].at[ix]) = SoundSpeed(args.c, defs)

\* C7: no evaluator mutates its inputs or shared state: after any call the
\* caller's grid components, x0, n0, L and N and the constants c and rho are
\* unchanged, and no returned array shares its buffer with an argument.
ArgumentBuffers == {"gx", "gy", "gz", "x0", "n0"}

C7_NoMutationNoAliasing ==
    /\ defs = Defs0
    /\ pc = "returned" =>
         /\ \A c \in 1..Len(out.val) : out.val[c].base \notin ArgumentBuffers
         /\ \A w \in out.writes : w[1] \notin ArgumentBuffers
         /\ mem = Memory(args, {})

C7_Witness ==
    /\ Returned /\ fn = "point_velocity"
    /\ args.grid[1].shape = <<NY, NX, NZ>>
    /\ \E w \in out.writes : w[1] = "fresh" /\ w[2].shape = <<NY, NX, NZ>>
    /\ mem.grid = args.grid

\* C8: the results of line, line_velocity and line_dipole depend neither on
\* the third component of x0 nor on the values of the grid's z component:
\* calls that differ only there return identical fields.
LineCall(name, a, d) ==
    CASE name = "line" -> line(a.omega, a.x0, a.n0, a.grid, a.c, d)
      [] name = "line_velocity" -> line_velocity(a.omega, a.x0, a.n0, a.grid, a.c, d)
      [] name = "line_dipole" -> line_dipole(a.omega, a.x0, a.n0, a.grid, a.c, d)

\* the arguments a with x0[2] set to x0z and every z coordinate v of the
\* grid replaced by sign * v + dz
C8_Variant(a, x0z, sign, dz) ==
    [a EXCEPT !.x0 = [a.x0 EXCEPT !.at = [a.x0.at EXCEPT ![<<3>>] = x0z]],
              !.grid = IF Len(a.grid) < 3 THEN a.grid
                       ELSE [a.grid EXCEPT ![3] = [a.grid[3] EXCEPT !.at =
                               [ix \in Idx(a.grid[3].shape) |->
                                   sign * a.grid[3].at[ix] + dz]]]]

C8_LineIgnoresZ ==
    (pc = "returned" /\ fn \in LineFamily) =>
        \A x0z \in 0..2, sign \in {-1, 1}, dz \in 0..2 :
            LET r == LineCall(fn, C8_Variant(args, x0z, sign, dz), defs)
            IN  r.status = out.status /\ r.exc = out.exc /\ r.val = out.val

C8_Witness ==
    /\ Returned /\ fn = "line_dipole" /\ Len(GridShape(args.grid)) = 3
    /\ args.x0.at[<<3>>] = 1
    /\ args.grid[3].at[<<1, 1, 1>>] = 1
    /\ C8_Variant(args, 0, -1, 2) # args
    /\ LineCall(fn, C8_Variant(args, 0, -1, 2), defs).val = out.val

\* C9: an N that is none of the recognised forms (absent, a single integer,
\* a length-3 sequence) makes point_modal and point_modal_velocity fail with
\* a type/shape failure; no such N is silently accepted.
C9_Recognised ==
    \/ args.N.form \in {"none", "int"}
    \/ args.N.form = "seq" /\ Len(args.N.s) = 3

C9_InvalidNFails ==
    (pc = "returned" /\ fn \in Modal /\ ~C9_Recognised) =>
        (out.status = "raised" /\ out.exc \in {"TypeError", "IndexError", "ValueError"})

\* C10: both modal routines sum over the Cartesian product A_x x A_y x A_z,
\* A_i being the non-negative integers m with m*pi/L_i below k when N is
\* omitted, 0..N-1 for a scalar N and {N[i]} for a length-3 N; both routines
\* select the same set.
C10_K == Frac(args.omega, SoundSpeed(args.c, defs))

C10_Axis(i) ==
    IF args.N.form = "none"
    THEN {m \in 0..(args.L.s[i] * C10_K[1]) :
             m * PiNum * C10_K[2] < C10_K[1] * PiDen * args.L.s[i]}
    ELSE IF args.N.form = "int" THEN 0..(args.N.n - 1)
    ELSE {args.N.s[i]}

C10_Expected == C10_Axis(1) \X C10_Axis(2) \X C10_Axis(3)

C10_Selected(sel) ==
    {<<sel.mm[a], sel.nn[b], sel.ll[c]>> :
        a \in 1..Len(sel.mm), b \in 1..Len(sel.nn), c \in 1..Len(sel.ll)}

C10_Summed(obj, ix) ==
    IF obj.kind = "int" THEN {} ELSE {obj.at[ix][j].m : j \in 1..Len(obj.at[ix])}

C10_Count(obj, ix) == IF obj.kind = "int" THEN 0 ELSE Len(obj.at[ix])

C11_Pressure ==
    point_modal(args.omega, args.x0, args.n0, args.grid, args.L, args.N,
                args.deltan, args.c, defs)

\* the call with the coordinates of the axes other than a shifted by dv
C11_OtherAxesShifted(a, dv) ==
    point_modal_velocity(args.omega, args.x0, args.n0,
        [b \in 1..3 |-> IF b = a THEN args.grid[b]
                        ELSE [args.grid[b] EXCEPT !.at =
                                [ix \in Idx(args.grid[b].shape) |-> args.grid[b].at[ix] + dv]]],
        args.L, args.N, args.deltan, args.c, defs)

C11_VelocityTerms ==
    (Returned /\ fn = "point_modal_velocity") =>
        LET triples == SummedTriples
            pr == C11_Pressure
            k == Frac(args.omega, SoundSpeed(args.c, defs))
            \* the coefficients of the pressure sum, in summation order
            pcoef == IF GridOk /\ pr.status = "returned" /\ pr.val[1].kind = "ndarray"
                     THEN LET q == pr.val[1].at[CHOOSE px \in Idx(pr.val[1].shape) : TRUE]
                          IN  [j \in 1..Len(q) |-> q[j].coef]
                     ELSE <<>>
        IN  \A a \in 1..3 :
              /\ Len(triples) > 0 => out.val[a].shape = args.grid[a].shape
              /\ \A ix \in Idx(out.val[a].shape) :
                   /\ Len(out.val[a].at[ix]) = Len(triples)
                   /\ \A j \in 1..Len(triples) :
                        LET term == out.val[a].at[ix][j]
                            t == triples[j]
                        IN  /\ term.coef.num = "-8j"
                            /\ term.coef.k = k
                            /\ term.coef.deltan = args.deltan
                            /\ term.coef.km = [b \in 1..3 |-> Frac(t[b], args.L.s[b])]
                            /\ term.p = << [f |-> "sin", km |-> Frac(t[a], args.L.s[a]),
                                            at |-> args.grid[a].at[ix],
                                            src |-> args.x0.at[<<a>>]] >>
                            /\ j <= Len(pcoef) => pcoef[j] = [term.coef EXCEPT !.num = "8"]
              /\ \A dv \in 1..2 : C11_OtherAxesShifted(a, dv).val[a] = out.val[a]

C11_Witness ==
    /\ Returned /\ fn = "point_modal_velocity"
    /\ args.N.form = "int" /\ args.N.n = 2 /\ args.deltan = 1
    /\ args.grid[1].shape = <<1, NX, 1>> /\ args.grid[3].shape = <<1, 1, NZ>>
    /\ out.val[1].shape = <<1, NX, 1>>
    /\ Len(out.val[1].at[<<1, NX, 1>>]) = 8
    /\ C11_Pressure.status = "returned"
    /\ out.val[1].at[<<1, NX, 1>>][8].coef.km = <<<<1, 4>>, <<1, 3>>, <<1, 2>>>>

\* C12: line_velocity returns a third (z) velocity component, identically
\* zero, exactly when the grid has a z-extent; the two in-plane components
\* are the Hankel term projected by offset_axis/r, and for a grid without
\* z-extent no z component is appended.
C12_HasZExtent == Len(GridShape(args.grid)) > 2

C12_ZComponentIffZExtent ==
    (Returned /\ fn = "line_velocity") => (Len(out.val) = 3 <=> C12_HasZExtent)

\* C12 as amended: the zero z component is returned exactly when the grid
\* has a z component (three components), with or without an extent along z.
C12_InPlane(c) ==
    \A ix \in Idx(GridShape(args.grid)) :
        LET e == out.val[c].at[ix]
            dx == Get(args.grid[1], ix) - args.x0.at[<<1>>]
            dy == Get(args.grid[2], ix) - args.x0.at[<<2>>]
        IN  /\ e.f = "line_velocity"
            /\ e.k = Frac(args.omega, SoundSpeed(args.c, defs))
            /\ e.r2 = dx * dx + dy * dy
            /\ e.o = IF c = 1 THEN dx ELSE dy

C12_ZComponentIffZComponent ==
    (Returned /\ fn = "line_velocity") =>
        /\ Len(out.val) = 3 <=> Len(args.grid) = 3
        /\ Len(out.val) = 2 <=> Len(args.grid) = 2
        /\ C12_InPlane(1) /\ C12_InPlane(2)
        /\ Len(out.val) = 3 =>
             \A ix \in Idx(out.val[3].shape) : out.val[3].at[ix].f = "zero"

C12_Witness ==
    /\ Returned /\ fn = "line_velocity"
    /\ Len(args.grid) = 3 /\ args.grid[3].shape = <<>> /\ ~C12_HasZExtent
    /\ Len(out.val) = 3
    /\ out.val[3].shape = <<NY, NX>>
    /\ out.val[1].at[<<1, NX>>].o = NX - 1 - args.x0.at[<<1>>]

\* C13: with N the explicit triple (0,0,0) every axial basis factor is
\* position-independent (cos(0) = 1, sin(0) = 0): point_modal returns the
\* single-term value 8 / (k^2 - 3*(j*deltan)^2) at every grid point and
\* point_modal_velocity returns zero on all three axes; deltan enters only
\* through the shifted squared mode wavenumber.
C13_ZeroMode == fn \in Modal /\ args.N.form = "seq" /\ args.N.s = <<0, 0, 0>>

\* cos(0 * coord) * cos(0 * x0) = 1
C13_UnitFactor(b) == b.f = "cos" /\ b.km[1] = 0

\* sin(0 * coord) * cos(0 * x0) = 0
C13_NullFactor(b) == b.f = "sin" /\ b.km[1] = 0

\* a term of value zero: a finite coefficient times a null factor
C13_ZeroTerm(term) == term.coef.fin /\ \E i \in 1..Len(term.p) : C13_NullFactor(term.p[i])

C13_SingleTerm(obj, num) ==
    /\ obj.kind = "ndarray"
    /\ \A ix \in Idx(obj.shape) :
         /\ Len(obj.at[ix]) = 1
         /\ obj.at[ix][1].coef.num = num
         /\ obj.at[ix][1].coef.k = Frac(args.omega, SoundSpeed(args.c, defs))
         /\ obj.at[ix][1].coef.km = <<<<0, 1>>, <<0, 1>>, <<0, 1>>>>
         /\ obj.at[ix][1].coef.deltan = args.deltan

C13_Values ==
    IF fn = "point_modal"
    THEN /\ Len(out.val) = 1
         /\ C13_SingleTerm(out.val[1], "8")
         /\ out.val[1].shape = GridShape(args.grid)
         /\ \A ix \in Idx(out.val[1].shape) :
              \A i \in 1..3 : C13_UnitFactor(out.val[1].at[ix][1].p[i])
    ELSE /\ Len(out.val) = 3
         /\ \A a \in 1..3 :
              /\ C13_SingleTerm(out.val[a], "-8j")
              /\ \A ix \in Idx(out.val[a].shape) : C13_ZeroTerm(out.val[a].at[ix][1])

C13_ZeroModeUniform ==
    (Returned /\ C13_ZeroMode /\ GridOk) => C13_Values

\* C13 as amended: the same, for a non-zero denominator k^2 + 3*deltan^2
\* (omega = 0 with deltan = 0 excluded); with another deltan only the
\* coefficient's deltan changes.
C13_OtherDeltan(dl) ==
    IF fn = "point_modal"
    THEN point_modal(args.omega, args.x0, args.n0, args.grid, args.L, args.N, dl,
                     args.c, defs)
    ELSE point_modal_velocity(args.omega, args.x0, args.n0, args.grid, args.L, args.N, dl,
                              args.c, defs)

C13_SameButDeltan(o1, o2) ==
    /\ Len(o1.val) = Len(o2.val)
    /\ \A c \in 1..Len(o1.val) :
         /\ o1.val[c].shape = o2.val[c].shape
         /\ \A ix \in Idx(o1.val[c].shape) :
              LET t1 == o1.val[c].at[ix][1]
                  t2 == o2.val[c].at[ix][1]
              IN  /\ t1.p = t2.p /\ t1.m = t2.m
                  /\ t1.coef.k = t2.coef.k /\ t1.coef.km = t2.coef.km
                  /\ t1.coef.num = t2.coef.num

C13_ZeroModeUniformNonSingular ==
    (pc = "returned" /\ C13_ZeroMode /\ GridOk /\ (args.omega # 0 \/ args.deltan # 0)) =>
        /\ out.status = "returned"
        /\ C13_Values
        /\ \A dl \in 1..2 : C13_SameButDeltan(out, C13_OtherDeltan(dl))

C13_Witness ==
    /\ Returned /\ C13_ZeroMode /\ GridOk /\ fn = "point_modal_velocity"
    /\ args.omega = 0 /\ args.deltan = 1
    /\ args.grid[2].shape = <<NY, 1, 1>>
    /\ out.val[2].at[<<NY, 1, 1>>][1].p[1].at = NY - 1
    /\ C13_ZeroTerm(out.val[2].at[<<NY, 1, 1>>][1])

=============================================================================
